---- MODULE Spec2Model ----
(***************************************************************************)
(* microwink SegModel (src/src/microwink/seg.py): the pipeline of one      *)
(* apply call, from the letterbox preprocessing to the list of results.    *)
(*                                                                         *)
(* Numbers.  Every quantity is an exact rational kept as integers:         *)
(*   - scores and thresholds are in tenths (0.6 is 6);                     *)
(*   - a ratio is a pair <<num, den>>;                                     *)
(*   - a padding is kept doubled (pad2 = 2 * pad), it is k or k + 1/2;     *)
(*   - a rescaled box coordinate is a numerator over the denominator       *)
(*     den kept with the boxes;                                            *)
(*   - a mask value is in thousandths (0.5 is 500).                        *)
(* Sequences are 1-based where numpy arrays are 0-based; pixel indices     *)
(* keep numpy's 0-based numbering.                                         *)
(***************************************************************************)
EXTENDS Integers, Sequences, FiniteSets, TLC

VARIABLES
    pc,         \* position of the current call
    model,      \* SegModel.model_height, SegModel.model_width
    image,      \* the image handed to apply: mode, height ih, width iw
    threshold,  \* the Threshold handed to apply
    pre,        \* locals and result of preprocess
    preds,      \* the two tensors returned by session.run
    x,          \* postprocess: the rows that passed the confidence filter
    keep,       \* postprocess: the indices returned by nms
    boxes,      \* postprocess: the output of postprocess_boxes
    win,        \* _scale_masks: the window cut out of the prototype grid
    raw,        \* the RawResult (or None) returned by _run
    results,    \* the list returned by apply
    err,        \* the exception that ended the call, "none" if none
    calls       \* the stages invoked so far by the current call, in order

vars == <<pc, model, image, threshold, pre, preds, x, keep, boxes, win, raw,
          results, err, calls>>

----------------------------------------------------------------------------
(* Bounds of the model *)

MaxDim == 2        \* ordinary images are 0..MaxDim pixels wide and high
LongDim == 250     \* the long side of the two thin images (LongDim x 1, 1 x LongDim)
SmallModel == 2    \* side of the small network input
RefModel == 640    \* side of the reference network input
MaxCand == 2       \* candidates (anchors) in a detection tensor

(* Constants of the program *)

B == 1
NM == 32
MH == 160
MW == 160
NUM_CLASSES == 1
CLASS_ID == 0

C == 4 + NUM_CLASSES + NM

----------------------------------------------------------------------------
(* Arithmetic *)

Min(a, b) == IF a <= b THEN a ELSE b
Max(a, b) == IF a >= b THEN a ELSE b

(* Python's round(n / d) for d > 0: to nearest, ties to even. *)
PyRound(n, d) ==
    LET q == n \div d
        r == n % d
    IN  IF 2 * r < d THEN q
        ELSE IF 2 * r > d THEN q + 1
        ELSE IF q % 2 = 0 THEN q ELSE q + 1

(* min(a / b, c / d) of positive integers, as <<num, den>>; Python's min   *)
(* returns the first argument on a tie.                                    *)
MinRatio(a, b, c, d) == IF a * d <= c * b THEN <<a, b>> ELSE <<c, d>>

Called(stage) == \E i \in 1..Len(calls) : calls[i] = stage

----------------------------------------------------------------------------
(* Inputs *)

(* The input tensors a session may declare: their number and the shape     *)
(* (B, _, H, W) of the first.                                              *)
SessionInputs ==
    [inputs : {1, 2}, batch : {1, 2},
     height : {SmallModel, RefModel}, width : {SmallModel, RefModel}]

(* PIL images: a mode and a size; PIL allows a side of 0 pixels. *)
ImageSizes ==
    {<<h, w>> : h \in 0..MaxDim, w \in 0..MaxDim} \cup {<<LongDim, 1>>, <<1, LongDim>>}

Images == {[mode |-> m, ih |-> s[1], iw |-> s[2]] : m \in {"RGB", "L"}, s \in ImageSizes}

Thresholds == [confidence : {6, 8}, iou : {3, 5}]

(* Rows of the transposed detection tensor: a box in center-size form in   *)
(* network-input pixels and the class score; the 32 mask coefficients are  *)
(* not kept, see ScaledLogit.                                              *)
Row(cx, cy, w, h, s) == [cx |-> cx, cy |-> cy, w |-> w, h |-> h, score |-> s]

RowPool ==
    { Row(2, 2, 4, 4, 8),     \* corners (0,0)-(4,4)
      Row(1, 2, 2, 4, 7),     \* corners (0,0)-(2,4): IoU 1/2 with the first
      Row(10, 2, 20, 4, 8),   \* corners (0,0)-(20,4)
      Row(9, 2, 18, 4, 7),    \* corners (0,0)-(18,4): IoU 9/10 with the third
      Row(2, 2, -2, 2, 9),    \* a negative width
      Row(1, 1, 1, 1, 9),     \* corners (1/2,1/2)-(3/2,3/2)
      Row(1, 1, 2, 2, 11),    \* a score above 1
      Row(1, 1, 2, 2, 5) }    \* a score below every threshold

RowSeqs(n) == UNION {[1..k -> RowPool] : k \in 0..n}

(* What session.run may return: the detection tensor (batch, channels,     *)
(* rows) and the shape of the prototype tensor.  The malformed outputs     *)
(* carry at most one row.                                                  *)
Pred(b, c, ps, rows) == [ran |-> TRUE, batch |-> b, channels |-> c, protos |-> ps, rows |-> rows]

Predictions ==
    {Pred(B, C, <<NM, MH, MW>>, rows) : rows \in RowSeqs(MaxCand)}
    \cup {Pred(B + 1, C, <<NM, MH, MW>>, rows) : rows \in RowSeqs(1)}
    \cup {Pred(B, C + 1, <<NM, MH, MW>>, rows) : rows \in RowSeqs(1)}
    \cup {Pred(B, C, <<NM, MH \div 2, MW \div 2>>, rows) : rows \in RowSeqs(1)}

----------------------------------------------------------------------------
(* The values the variables hold before the stage that sets them has run *)

NoModel == [height |-> 0, width |-> 0]
NoImage == [mode |-> "RGB", ih |-> 0, iw |-> 0]
NoThreshold == [confidence |-> 0, iou |-> 0]
NoPre ==
    [ran |-> FALSE, ratio |-> <<0, 1>>, rw |-> 0, rh |-> 0, pad_w2 |-> 0, pad_h2 |-> 0,
     resized |-> FALSE, top |-> 0, bottom |-> 0, left |-> 0, right |-> 0, blob |-> <<>>]
NoPreds == [ran |-> FALSE, batch |-> 0, channels |-> 0, protos |-> <<>>, rows |-> <<>>]
NoBoxes == [den |-> 1, rows |-> <<>>]
NoWin == [ran |-> FALSE, top |-> 0, bottom |-> 0, left |-> 0, right |-> 0]
None == [some |-> FALSE, boxes |-> NoBoxes, scores |-> <<>>, class_ids |-> <<>>, masks |-> <<>>]

Init ==
    /\ pc = "new"
    /\ model = NoModel
    /\ image = NoImage
    /\ threshold = NoThreshold
    /\ pre = NoPre
    /\ preds = NoPreds
    /\ x = <<>>
    /\ keep = <<>>
    /\ boxes = NoBoxes
    /\ win = NoWin
    /\ raw = None
    /\ results = <<>>
    /\ err = "none"
    /\ calls = <<>>

callVars == <<pre, preds, x, keep, boxes, win, raw, results>>

Raise(e) == pc' = "error" /\ err' = e

----------------------------------------------------------------------------
(* SegModel.__init__ *)

Construct ==
    /\ pc = "new"
    /\ \E s \in SessionInputs :
         IF s.inputs # 1 \/ s.batch # B
         THEN /\ pc' = "unsupported"
              /\ err' = IF s.inputs # 1 THEN "inputs" ELSE "batching is not supported"
              /\ UNCHANGED model
         ELSE /\ pc' = "ready"
              /\ model' = [height |-> s.height, width |-> s.width]
              /\ UNCHANGED err
    /\ UNCHANGED <<image, threshold, callVars, calls>>

(* SegModel.apply, up to the call of _run *)
Apply ==
    /\ pc = "ready"
    /\ \E img \in Images, th \in Thresholds :
         /\ image' = img
         /\ threshold' = th
         /\ IF img.mode # "RGB"
            THEN Raise("mode")
            ELSE pc' = "preprocess" /\ err' = "none"
    /\ UNCHANGED <<model, callVars, calls>>

(* The arguments apply hands to _run, the two thresholds exchanged. *)
RunArgs_Swapped(th) == [conf_threshold |-> th.iou, iou_threshold |-> th.confidence]

(* The arguments apply hands to _run. *)
RunArgs(th) == [conf_threshold |-> th.confidence, iou_threshold |-> th.iou]

----------------------------------------------------------------------------
(* SegModel.preprocess *)

(* Both borders rounded from pad - EPS. *)
Borders_SameSign(pad2) == <<PyRound(5 * pad2 - 1, 10), PyRound(5 * pad2 - 1, 10)>>

(* top, bottom (left, right) = round(pad - EPS), round(pad + EPS), EPS = 0.1 *)
Borders(pad2) == <<PyRound(5 * pad2 - 1, 10), PyRound(5 * pad2 + 1, 10)>>

Preprocess ==
    /\ pc = "preprocess"
    /\ calls' = Append(calls, "preprocess")
    /\ IF image.ih = 0 \/ image.iw = 0
       THEN Raise("ZeroDivisionError") /\ pre' = [NoPre EXCEPT !.ran = TRUE]
       ELSE LET ih == image.ih
                iw == image.iw
                oh == model.height
                ow == model.width
                r == MinRatio(oh, ih, ow, iw)
                rw == PyRound(iw * r[1], r[2])
                rh == PyRound(ih * r[1], r[2])
                pad_w2 == ow - rw
                pad_h2 == oh - rh
                resized == <<iw, ih>> # <<rw, rh>>
                tb == Borders(pad_h2)
                lr == Borders(pad_w2)
                locals == [NoPre EXCEPT !.ran = TRUE, !.ratio = r, !.rw = rw, !.rh = rh,
                                        !.pad_w2 = pad_w2, !.pad_h2 = pad_h2,
                                        !.resized = resized]
            IN  IF resized /\ ~(rw > 0 /\ rh > 0)
                THEN Raise("resize") /\ pre' = locals
                ELSE /\ pre' = [locals EXCEPT !.top = tb[1], !.bottom = tb[2],
                                              !.left = lr[1], !.right = lr[2],
                                              !.blob = <<1, 3, tb[1] + rh + tb[2],
                                                         lr[1] + rw + lr[2]>>]
                     /\ pc' = "run"
                     /\ UNCHANGED err
    /\ UNCHANGED <<model, image, threshold, preds, x, keep, boxes, win, raw, results>>

(* session.run in SegModel._run *)
Run ==
    /\ pc = "run"
    /\ Len(pre.blob) = 4
    /\ \E p \in Predictions : preds' = p
    /\ calls' = Append(calls, "run")
    /\ pc' = "postprocess"
    /\ UNCHANGED <<model, image, threshold, pre, x, keep, boxes, win, raw, results, err>>

----------------------------------------------------------------------------
(* cv2.dnn.NMSBoxes, as SegModel.nms calls it (eta = 1, top_k = 0).  A box *)
(* is a rectangle <<x, y, width, height>>: (x, y) is its top-left corner.  *)

Area(a) == a[3] * a[4]

Empty(a) == a[3] <= 0 \/ a[4] <= 0

(* area of the intersection a & b *)
InterArea(a, b) ==
    IF Empty(a) \/ Empty(b) THEN 0
    ELSE LET w == Min(a[1] + a[3], b[1] + b[3]) - Max(a[1], b[1])
             h == Min(a[2] + a[4], b[2] + b[4]) - Max(a[2], b[2])
         IN  IF w <= 0 \/ h <= 0 THEN 0 ELSE w * h

(* 1 - jaccardDistance(a, b) as <<num, den>>: 1 when the two areas sum to  *)
(* nothing, else intersection over union.                                  *)
RectOverlap(a, b) ==
    IF Area(a) + Area(b) <= 0 THEN <<1, 1>>
    ELSE <<InterArea(a, b), Area(a) + Area(b) - InterArea(a, b)>>

(* overlap > nms_threshold, the threshold in tenths *)
Exceeds(ov, thr) == 10 * ov[1] > thr * ov[2]

(* The indices whose score is above the threshold, by descending score;    *)
(* the sort is stable, so equal scores stay in index order.                *)
RECURSIVE ScoreOrder(_, _)
ScoreOrder(scores, S) ==
    IF S = {} THEN <<>>
    ELSE LET best == CHOOSE i \in S : \A j \in S :
                         \/ scores[i] > scores[j]
                         \/ scores[i] = scores[j] /\ i <= j
         IN  <<best>> \o ScoreOrder(scores, S \ {best})

RECURSIVE NMSFast(_, _, _, _)
NMSFast(bboxes, order, kept, nms_threshold) ==
    IF order = <<>> THEN kept
    ELSE LET idx == Head(order)
             ok == \A k \in 1..Len(kept) :
                       ~Exceeds(RectOverlap(bboxes[idx], bboxes[kept[k]]), nms_threshold)
         IN  NMSFast(bboxes, Tail(order), IF ok THEN Append(kept, idx) ELSE kept,
                     nms_threshold)

NMSBoxes(bboxes, scores, score_threshold, nms_threshold) ==
    NMSFast(bboxes,
            ScoreOrder(scores, {i \in 1..Len(scores) : scores[i] > score_threshold}),
            <<>>, nms_threshold)

----------------------------------------------------------------------------
(* SegModel.postprocess *)

(* x[:, 4 : 4 + NUM_CLASSES].max(axis=1) > conf_threshold *)
Likely(row, conf_threshold) == row.score > conf_threshold

(* boxes = x[:, :4], the first four columns as they are *)
BoxColumns(rows) == [i \in 1..Len(rows) |-> <<rows[i].cx, rows[i].cy, rows[i].w, rows[i].h>>]

(* scores = x[:, 4 : 4 + NUM_CLASSES].max(axis=1) *)
ScoreColumn(rows) == [i \in 1..Len(rows) |-> rows[i].score]

(* x[:, 4 : 4 + NUM_CLASSES].argmax(axis=1): the index of the one class column *)
ClassIds(rows) == [i \in 1..Len(rows) |-> 0]

(* a[keep] *)
Take(a, idx) == [k \in 1..Len(idx) |-> a[idx[k]]]

(* lines 167-180: the shape assertions and the confidence filter *)
Decode ==
    /\ pc = "postprocess"
    /\ calls' = Append(calls, "postprocess")
    /\ IF preds.batch # B THEN Raise("batch") /\ UNCHANGED x
       ELSE IF preds.protos # <<NM, MH, MW>> THEN Raise("protos") /\ UNCHANGED x
       ELSE IF preds.channels # C THEN Raise("channels") /\ UNCHANGED x
       ELSE /\ x' = SelectSeq(preds.rows,
                       LAMBDA row : Likely(row, RunArgs(threshold).conf_threshold))
            /\ pc' = "nms"
            /\ UNCHANGED err
    /\ UNCHANGED <<model, image, threshold, pre, preds, keep, boxes, win, raw, results>>

(* postprocess without the return of None when nms keeps nothing. *)
Suppress_NoShortCircuit ==
    /\ pc = "nms"
    /\ calls' = Append(calls, "nms")
    /\ keep' = NMSBoxes(BoxColumns(x), ScoreColumn(x),
                        RunArgs(threshold).conf_threshold,
                        RunArgs(threshold).iou_threshold)
    /\ pc' = "boxes"
    /\ UNCHANGED <<model, image, threshold, pre, preds, x, boxes, win, raw, results, err>>

(* lines 182-192: the call of nms and the return of None *)
Suppress ==
    /\ pc = "nms"
    /\ calls' = Append(calls, "nms")
    /\ LET k == NMSBoxes(BoxColumns(x), ScoreColumn(x),
                         RunArgs(threshold).conf_threshold,
                         RunArgs(threshold).iou_threshold)
       IN  /\ keep' = k
           /\ pc' = IF Len(k) = 0 THEN "return" ELSE "boxes"
    /\ UNCHANGED <<model, image, threshold, pre, preds, x, boxes, win, raw, results, err>>

(* SegModel.postprocess_boxes.  The rows come in center-size form; the     *)
(* corners are computed in half pixels (x1 = (2cx - w) / 2), the padding   *)
(* is pad2 / 2 and the ratio num / den, so a rescaled coordinate is        *)
(* (half - pad2) * den / (2 * num): a numerator over 2 * num.              *)
postprocess_boxes(rows, ih, iw, ratio, pad_w2, pad_h2) ==
    LET den == 2 * ratio[1]
        rescale(half, pad2) == (half - pad2) * ratio[2]
        clip(v, hi) == Min(Max(v, 0), hi * den)
        box(row) ==
            LET x1 == 2 * row.cx - row.w
                y1 == 2 * row.cy - row.h
                x2 == 2 * row.w + x1
                y2 == 2 * row.h + y1
            IN  << clip(rescale(x1, pad_w2), iw), clip(rescale(y1, pad_h2), ih),
                   clip(rescale(x2, pad_w2), iw), clip(rescale(y2, pad_h2), ih) >>
    IN  [den |-> den, rows |-> [k \in 1..Len(rows) |-> box(rows[k])]]

(* lines 196-202 *)
RescaleBoxes ==
    /\ pc = "boxes"
    /\ calls' = Append(calls, "postprocess_boxes")
    /\ boxes' = postprocess_boxes(Take(x, keep), image.ih, image.iw,
                                  pre.ratio, pre.pad_w2, pre.pad_h2)
    /\ pc' = "masks"
    /\ UNCHANGED <<model, image, threshold, pre, preds, x, keep, win, raw, results, err>>

----------------------------------------------------------------------------
(* SegModel.postprocess_masks *)

(* _scale_masks, lines 260-268: the window [top, bottom) x [left, right)   *)
(* cut out of the mh x mw grid.  With gain = gn / gd the padding is        *)
(* (mw * gd - iw * gn) / (2 * gd); EPS = 0.1.                              *)
ScaleWindow(mh, mw, ih, iw) ==
    LET gain == MinRatio(mh, ih, mw, iw)
        gn == gain[1]
        gd == gain[2]
        pw == mw * gd - iw * gn      \* 2 * gd * pad_w
        ph == mh * gd - ih * gn      \* 2 * gd * pad_h
    IN  [ran |-> TRUE,
         top |-> PyRound(5 * ph - gd, 10 * gd),
         bottom |-> PyRound(10 * mh * gd - 5 * ph + gd, 10 * gd),
         left |-> PyRound(5 * pw - gd, 10 * gd),
         right |-> PyRound(10 * mw * gd - 5 * pw + gd, 10 * gd)]

(* masks[:, top:bottom, left:right] has no element *)
EmptyWindow(w) == w.bottom <= w.top \/ w.right <= w.left

(* The pixels of an ih x iw array, <<row, column>>. *)
Pixels(ih, iw) == (0..(ih - 1)) \X (0..(iw - 1))

(* The values of the masks after the matrix product with the prototypes    *)
(* and the Lanczos resize to (ih, iw).  The prototypes, the coefficients   *)
(* and the filter are not modelled: the value of mask i at a pixel is one  *)
(* of Logits, laid out by a pattern the call draws.  The two outer values  *)
(* are the ones the sigmoid saturates on.                                  *)
Logits == <<-1000, -1, 0, 2, 1000>>

Patterns == {0, 1}

ScaledLogit(pattern, i, p) == Logits[((pattern + i + p[2] + 2 * p[1]) % Len(Logits)) + 1]

(* _crop_masks: (r >= x1) * (r < x2) * (c >= y1) * (c < y2), r the column  *)
(* and c the row of the pixel; the box coordinates are numerators over den *)
InsideBox(box, den, p) ==
    /\ p[2] * den >= box[1]
    /\ p[2] * den < box[3]
    /\ p[1] * den >= box[2]
    /\ p[1] * den < box[4]

_crop_masks(v, box, den, p) == IF InsideBox(box, den, p) THEN v ELSE 0

(* common.sigmoid, in thousandths: the logistic function on Logits; in     *)
(* floating point it is exactly 0 and exactly 1 on the outer values.       *)
sigmoid(v) ==
    CASE v <= -1000 -> 0
      [] v = -1 -> 269
      [] v = 0 -> 500
      [] v = 1 -> 731
      [] v = 2 -> 881
      [] v >= 1000 -> 1000

(* line 252: sigmoid(_crop_masks(masks, boxes)) *)
postprocess_masks(pattern, bx, ih, iw) ==
    [i \in 1..Len(bx.rows) |->
        [p \in Pixels(ih, iw) |->
            sigmoid(_crop_masks(ScaledLogit(pattern, i, p), bx.rows[i], bx.den, p))]]

(* lines 203-214: postprocess_masks and the RawResult.  Pillow is handed   *)
(* an array without elements when the window is empty: it raises or it     *)
(* returns an (ih, iw) array of some values.                               *)
Reconstruct ==
    /\ pc = "masks"
    /\ calls' = Append(calls, "postprocess_masks")
    /\ win' = ScaleWindow(MH, MW, image.ih, image.iw)
    /\ \/ /\ EmptyWindow(win')
          /\ Raise("resize of an empty array")
          /\ UNCHANGED raw
       \/ /\ \E pattern \in Patterns :
                raw' = [some |-> TRUE,
                        boxes |-> boxes,
                        scores |-> Take(ScoreColumn(x), keep),
                        class_ids |-> Take(ClassIds(x), keep),
                        masks |-> postprocess_masks(pattern, boxes, image.ih, image.iw)]
          /\ pc' = "return"
          /\ UNCHANGED err
    /\ UNCHANGED <<model, image, threshold, pre, preds, x, keep, boxes, results>>

----------------------------------------------------------------------------
(* SegModel.apply, lines 89-105 *)

(* common.Box.from_xyxy: the four corner coordinates, over den *)
from_xyxy(raw_box, den) ==
    [x1 |-> raw_box[1], y1 |-> raw_box[2], x2 |-> raw_box[3], y2 |-> raw_box[4],
     den |-> den]

(* lines 92-105: the loop over the RawResult *)
Collect ==
    IF \E k \in 1..Len(raw.scores) : raw.class_ids[k] # CLASS_ID
    THEN Raise("class_id") /\ UNCHANGED results
    ELSE IF \E k \in 1..Len(raw.scores) : ~(0 <= raw.scores[k] /\ raw.scores[k] <= 10)
    THEN Raise("score") /\ UNCHANGED results
    ELSE /\ results' = [k \in 1..Len(raw.scores) |->
                           [score |-> raw.scores[k],
                            mask |-> raw.masks[k],
                            box |-> from_xyxy(raw.boxes.rows[k], raw.boxes.den)]]
         /\ pc' = "done"
         /\ UNCHANGED err

(* apply without the test for None: the loop reads the fields of None. *)
Return_NoNoneCheck ==
    /\ pc = "return"
    /\ IF ~raw.some
       THEN Raise("AttributeError") /\ UNCHANGED results
       ELSE Collect
    /\ UNCHANGED <<model, image, threshold, pre, preds, x, keep, boxes, win, raw, calls>>

Return ==
    /\ pc = "return"
    /\ IF ~raw.some
       THEN results' = <<>> /\ pc' = "done" /\ UNCHANGED err
       ELSE Collect
    /\ UNCHANGED <<model, image, threshold, pre, preds, x, keep, boxes, win, raw, calls>>

(* The caller takes the list or the exception; the locals of the call are  *)
(* gone and the model is ready for the next call.                          *)
NextCall ==
    /\ pc \in {"done", "error"}
    /\ pc' = "ready"
    /\ image' = NoImage /\ threshold' = NoThreshold
    /\ pre' = NoPre /\ preds' = NoPreds /\ x' = <<>> /\ keep' = <<>>
    /\ boxes' = NoBoxes /\ win' = NoWin /\ raw' = None /\ results' = <<>>
    /\ err' = "none" /\ calls' = <<>>
    /\ UNCHANGED model

Next ==
    \/ Construct
    \/ Apply
    \/ Preprocess
    \/ Run
    \/ Decode
    \/ Suppress
    \/ RescaleBoxes
    \/ Reconstruct
    \/ Return
    \/ NextCall

Spec == Init /\ [][Next]_vars

----------------------------------------------------------------------------
(* Properties *)

(* The detection tensor and the prototypes have the shapes postprocess     *)
(* asserts.                                                                *)
WellFormed ==
    preds.ran /\ preds.batch = B /\ preds.channels = C /\ preds.protos = <<NM, MH, MW>>

(* No candidate of the detection tensor has a score above the confidence   *)
(* threshold of the call.                                                  *)
ZeroPass ==
    WellFormed /\ \A i \in 1..Len(preds.rows) : ~(preds.rows[i].score > threshold.confidence)

(* The rectangle of a candidate: x1 = cx - w/2, y1 = cy - h/2, x2 = x1 + w, *)
(* y2 = y1 + h, as <<x, y, width, height>> in half pixels.                  *)
CornerRect(row) == <<2 * row.cx - row.w, 2 * row.cy - row.h, 2 * row.w, 2 * row.h>>

IoU(a, b) == RectOverlap(CornerRect(a), CornerRect(b))

SameRatio(p, q) == p[1] * q[2] = q[1] * p[2]

PositiveSizes == \A i \in 1..Len(x) : x[i].w > 0 /\ x[i].h > 0

Kept(i) == \E k \in 1..Len(keep) : keep[k] = i

(* candidate i comes before candidate j in the order of the suppressor *)
Before(i, j) == x[i].score > x[j].score \/ (x[i].score = x[j].score /\ i < j)

(* C1: every result returned by apply has a score at or above the          *)
(* confidence threshold of the call.                                       *)
C1_ScoreAtLeastConfidence ==
    \A k \in 1..Len(results) : results[k].score >= threshold.confidence

(* a call returned results while a candidate was below the threshold *)
C1_Witness ==
    /\ pc = "done"
    /\ Len(results) >= 1
    /\ \E i \in 1..Len(preds.rows) : preds.rows[i].score <= threshold.confidence

(* C2: every element of a returned mask lies in [0, 1], and is exactly 0   *)
(* at every pixel outside the box of its result.                           *)
C2_MaskInRangeAndZeroOutsideBox ==
    \A k \in 1..Len(results) : \A p \in DOMAIN results[k].mask :
        LET b == results[k].box
            outside == \/ p[2] * b.den < b.x1 \/ p[2] * b.den >= b.x2
                       \/ p[1] * b.den < b.y1 \/ p[1] * b.den >= b.y2
        IN  /\ 0 <= results[k].mask[p] /\ results[k].mask[p] <= 1000
            /\ outside => results[k].mask[p] = 0

(* Every element of a returned mask lies in [0, 1]: the part of C2 that    *)
(* holds.                                                                  *)
MasksInRange ==
    \A k \in 1..Len(results) : \A p \in DOMAIN results[k].mask :
        0 <= results[k].mask[p] /\ results[k].mask[p] <= 1000

(* C3: every returned box satisfies 0 <= x1 <= x2 <= iw and                *)
(* 0 <= y1 <= y2 <= ih, whatever the candidate's (cx, cy, w, h).           *)
C3_BoxWithinImageAndOrdered ==
    \A k \in 1..Len(results) :
        LET b == results[k].box
        IN  /\ 0 <= b.x1 /\ b.x1 <= b.x2 /\ b.x2 <= image.iw * b.den
            /\ 0 <= b.y1 /\ b.y1 <= b.y2 /\ b.y2 <= image.ih * b.den

(* Every returned box lies within the image: the part of C3 that holds. *)
BoxesWithinImage ==
    \A k \in 1..Len(results) :
        LET b == results[k].box
        IN  /\ 0 <= b.x1 /\ b.x1 <= image.iw * b.den
            /\ 0 <= b.x2 /\ b.x2 <= image.iw * b.den
            /\ 0 <= b.y1 /\ b.y1 <= image.ih * b.den
            /\ 0 <= b.y2 /\ b.y2 <= image.ih * b.den

(* C4: in a call that returned, suppression was greedy NMS over the        *)
(* candidates that passed the filter (here: candidates of positive width   *)
(* and height): the first candidate in score order is retained; no two     *)
(* retained candidates have IoU above the iou threshold; every discarded   *)
(* candidate has IoU above the threshold with a retained candidate that    *)
(* comes before it; and two candidates at IoU 9/10 with scores 0.8 and 0.7 *)
(* under iou = 0.5 leave the 0.8 one alone.                                *)
C4_GreedySuppression ==
    (pc = "done" /\ Called("nms") /\ PositiveSizes) =>
        /\ \A i \in 1..Len(x) : (\A j \in 1..Len(x) : j = i \/ Before(i, j)) => Kept(i)
        /\ \A p, q \in 1..Len(keep) :
               p < q => ~Exceeds(IoU(x[keep[p]], x[keep[q]]), threshold.iou)
        /\ \A i \in 1..Len(x) :
               ~Kept(i) => \E k \in 1..Len(keep) :
                               /\ Before(keep[k], i)
                               /\ Exceeds(IoU(x[keep[k]], x[i]), threshold.iou)
        /\ ( /\ Len(x) = 2
             /\ {x[1].score, x[2].score} = {7, 8}
             /\ SameRatio(IoU(x[1], x[2]), <<9, 10>>)
             /\ threshold.iou = 5 )
           => (Len(keep) = 1 /\ x[keep[1]].score = 8)

(* The same four properties with the overlap of the rectangles as NMSBoxes *)
(* reads them, (cx, cy) taken for the top-left corner: they hold.          *)
GreedyOnBoxColumns ==
    Called("nms") =>
        LET bb == BoxColumns(x)
        IN  /\ \A i \in 1..Len(x) : (\A j \in 1..Len(x) : j = i \/ Before(i, j)) => Kept(i)
            /\ \A p, q \in 1..Len(keep) :
                   p < q => ~Exceeds(RectOverlap(bb[keep[p]], bb[keep[q]]), threshold.iou)
            /\ \A i \in 1..Len(x) :
                   ~Kept(i) => \E k \in 1..Len(keep) :
                                   /\ Before(keep[k], i)
                                   /\ Exceeds(RectOverlap(bb[keep[k]], bb[i]), threshold.iou)

(* C5: when no candidate has a score above the confidence threshold, the   *)
(* call raises nothing and returns the empty list.                         *)
C5_NoCandidateReturnsEmpty ==
    ZeroPass => /\ pc # "error"
                /\ err = "none"
                /\ ~raw.some
                /\ results = <<>>

(* a call on a detection tensor with candidates, none above the threshold, *)
(* has returned                                                            *)
C5_Witness ==
    /\ pc = "done"
    /\ ZeroPass
    /\ Len(preds.rows) >= 1
    /\ results = <<>>

C7_PreconditionsBeforeTensorWork ==
    (pc = "error" /\ err \in {"mode", "ZeroDivisionError", "batch", "channels"})
        => (pre.blob = <<>> /\ ~preds.ran)

(* C8: when no candidate passes the confidence threshold, the call invokes *)
(* neither nms nor postprocess_boxes nor postprocess_masks.                *)
C8_ShortCircuitBeforeSuppression ==
    ZeroPass => /\ ~Called("nms")
                /\ ~Called("postprocess_boxes")
                /\ ~Called("postprocess_masks")

(* C8, amended: when no candidate passes the confidence threshold, the     *)
(* call invokes neither postprocess_boxes nor postprocess_masks; nms is    *)
(* invoked, on no candidate, and keeps nothing, before the call returns.   *)
C8_ShortCircuitAfterSuppression ==
    ZeroPass => /\ ~Called("postprocess_boxes")
                /\ ~Called("postprocess_masks")
                /\ Called("nms") => (x = <<>> /\ keep = <<>>)
                /\ pc \in {"return", "done"} => Called("nms")

(* such a call has returned, its stages being preprocess, the inference,   *)
(* postprocess and nms                                                     *)
C8_Witness ==
    /\ pc = "done"
    /\ ZeroPass
    /\ Len(preds.rows) >= 1
    /\ calls = <<"preprocess", "run", "postprocess", "nms">>

(* C9: for every pair of candidates (of positive width and height) handed  *)
(* to the suppressor, the overlap it computes is the IoU of the            *)
(* candidates' rectangles.                                                 *)
C9_SuppressorSeesCornerBoxes ==
    (Called("nms") /\ PositiveSizes) =>
        \A i, j \in 1..Len(x) :
            i < j => SameRatio(RectOverlap(BoxColumns(x)[i], BoxColumns(x)[j]),
                               IoU(x[i], x[j]))

(* C10: for an image of positive width and height, preprocess resizes to a *)
(* size of at least 1 x 1 and the window _scale_masks cuts is not empty.   *)
C10_ResizesWellFormed ==
    (image.ih > 0 /\ image.iw > 0) =>
        /\ (pre.ran /\ pre.resized) => (pre.rw >= 1 /\ pre.rh >= 1)
        /\ win.ran => ~EmptyWindow(win)

====
